---- MODULE Spec2Model ----
(***************************************************************************)
(* Model of cinf26pk.pubchem: the retrying HTTP helpers pubchem_get and    *)
(* pubchem_post (pubchem/http.py) and the chunked batch retriever          *)
(* pubchem_properties_for_cids (pubchem/properties.py).                    *)
(*                                                                         *)
(* A text is a sequence of tokens; the token NL is the newline character   *)
(* and every other token stands for the content of one line.  An optional  *)
(* value (Python None or a value) is a sequence of length 0 or 1.          *)
(***************************************************************************)
EXTENDS Integers, Sequences, FiniteSets, TLC

\* ------------------------------------------------------------------
\* Bounds of the model
\* ------------------------------------------------------------------
MaxLen == 3          \* longest cid_list
MaxChunkSize == 3    \* chunk_size ranges over MinChunkSize..MaxChunkSize
MaxRetries == 3      \* retries of a direct call ranges over MinRetries..MaxRetries
MaxBaseDelay == 2    \* base_delay of a direct call ranges over 0..MaxBaseDelay
MaxEntries == 2      \* most entries of the JSON object given to load_cid_dict

MinChunkSize == 0 - 1
MinRetries == 0 - 1

\* ------------------------------------------------------------------
\* Program constants
\* ------------------------------------------------------------------
DEFAULT_RETRIES == 3
DEFAULT_BASE_DELAY == 2
DEFAULT_PROPERTIES ==
    << "HBondDonorCount", "HBondAcceptorCount", "MolecularWeight",
       "XLogP", "ConnectivitySMILES", "SMILES" >>

None == << >>
Some(v) == << v >>

NL == "\n"
HeaderLine == << "CID,..." >>

\* ------------------------------------------------------------------
\* Pure helpers
\* ------------------------------------------------------------------

\* str(cid): the text of one CID, used as the content of its data line
CidStr(c) == ToString(c)

\* variant: the emptiness test never short-circuits
Falsy_Never(lst) == FALSE

\* "not cid_list": Python truthiness of a list
Falsy(lst) == Len(lst) = 0

\* variant: floor division, len(cid_list) // chunk_size
NumChunks_Floor(n, size) ==
    IF size > 0 THEN n \div size
    ELSE 0 - (n \div (0 - size))

\* math.ceil(n / size) for size # 0
NumChunks(n, size) ==
    IF size > 0 THEN (n + size - 1) \div size
    ELSE 0 - (n \div (0 - size))

\* lst[lo:hi] for 0 <= lo <= hi (0-based, end exclusive, clipped to the list)
Slice(lst, lo, hi) ==
    LET h == IF hi < Len(lst) THEN hi ELSE Len(lst)
    IN  IF lo >= h THEN << >> ELSE SubSeq(lst, lo + 1, h)

\* cid_list[i * chunk_size : (i + 1) * chunk_size]
ChunkAt(lst, idx, size) == Slice(lst, idx * size, (idx + 1) * size)

\* position of the first NL in a text, 0 when there is none
FirstNL(text) ==
    IF \E k \in 1..Len(text) : text[k] = NL
    THEN CHOOSE k \in 1..Len(text) :
            text[k] = NL /\ \A j \in 1..(k - 1) : text[j] # NL
    ELSE 0

\* str.splitlines(): no trailing empty line, "" gives []
RECURSIVE SplitLines(_)
SplitLines(text) ==
    IF text = << >> THEN << >>
    ELSE LET k == FirstNL(text)
         IN  IF k = 0 THEN << text >>
             ELSE << SubSeq(text, 1, k - 1) >>
                     \o SplitLines(SubSeq(text, k + 1, Len(text)))

\* "\n".join(lines)
RECURSIVE JoinLines(_)
JoinLines(lines) ==
    IF lines = << >> THEN << >>
    ELSE IF Len(lines) = 1 THEN lines[1]
    ELSE lines[1] \o << NL >> \o JoinLines(Tail(lines))

\* lines[1:]
DropFirst(lines) == IF lines = << >> THEN << >> ELSE Tail(lines)

\* variant: the repeated header of a later chunk is not skipped
MergeChunk_KeepHeader(out, idx, lines) ==
    IF idx = 0 THEN JoinLines(lines)
    ELSE out \o << NL >> \o JoinLines(lines)

\* the merge step of one successful chunk
MergeChunk(out, idx, lines) ==
    IF idx = 0 THEN JoinLines(lines)
    ELSE out \o << NL >> \o JoinLines(DropFirst(lines))

\* variant: a constant delay, time.sleep(base_delay)
BackoffDelay_Constant(base_delay, attempt) == base_delay

\* time.sleep(base_delay * attempt)
BackoffDelay(base_delay, attempt) == base_delay * attempt

\* variant: "except requests.RequestException", which lets a decoding
\* error through
Caught_RequestsOnly(e) == e \in { "ConnectionError", "Timeout", "HTTPError" }

\* "except Exception": which raised errors the handler catches
Caught(e) == TRUE

\* variant: one attempt too many, range(1, retries + 2)
InRange_OffByOne(attempt, retries) == attempt <= retries + 1

\* variant: the body runs once before the bound is looked at (do-while)
InRange_AtLeastOnce(attempt, retries) == attempt = 1 \/ attempt <= retries

\* range(1, retries + 1) still has the value attempt
InRange(attempt, retries) == attempt <= retries

\* len(range(0, n, step)) for step >= 1
RangeLen(n, step) == (n + step - 1) \div step

\* variant: only the full chunks, range(0, len(lst) - size + 1, size)
ChunkList_FullOnly(lst, size) ==
    [ k \in 1..(Len(lst) \div size) |->
        Slice(lst, (k - 1) * size, (k - 1) * size + size) ]

\* [lst[i:i + size] for i in range(0, len(lst), size)]
ChunkList(lst, size) ==
    [ k \in 1..RangeLen(Len(lst), size) |->
        Slice(lst, (k - 1) * size, (k - 1) * size + size) ]

\* the parameters of make_filename(prefix, ext="csv")
MakeFilenameParams == { "prefix", "ext" }

\* a call binds when every keyword it passes names a parameter; otherwise
\* Python raises TypeError before the body runs
CallBinds(params, keywords) == keywords \subseteq params

\* f"{prefix}_{date_str}_v1.{ext}"
MakeFilename(prefix, ext, date_str) == << prefix, "_", date_str, "_v1.", ext >>

\* a JSON value as json.load gives it: its Python type and its content
JsonValue(type, val) == [ type |-> type, val |-> val ]

\* int(x): the converted value, or the exception int raises
IntConv(x) ==
    CASE x.type = "int" -> [ ok |-> TRUE, val |-> x.val ]
      [] x.type = "float" -> [ ok |-> TRUE, val |-> x.val.whole ]
      [] x.type = "str" /\ x.val \in { "1", "2", "7" } ->
            [ ok |-> TRUE,
              val |-> IF x.val = "1" THEN 1 ELSE IF x.val = "2" THEN 2 ELSE 7 ]
      [] x.type = "str" -> [ ok |-> FALSE, err |-> "ValueError" ]
      [] OTHER -> [ ok |-> FALSE, err |-> "TypeError" ]

\* a Python value passed as smiles: a str (its characters) or something else
Str(chars) == [ type |-> "str", val |-> chars ]
NotStr(type) == [ type |-> type, val |-> << >> ]

\* isinstance(v, str)
IsStr(v) == v.type = "str"

Whitespace == { " ", "\t", NL }

\* variant: no strip, the test is "not smiles"
Strip_Nothing(chars) == chars

\* str.strip(): leading and trailing whitespace removed
RECURSIVE Strip(_)
Strip(chars) ==
    IF chars = << >> THEN << >>
    ELSE IF Head(chars) \in Whitespace THEN Strip(Tail(chars))
    ELSE IF chars[Len(chars)] \in Whitespace
         THEN Strip(SubSeq(chars, 1, Len(chars) - 1))
    ELSE chars

\* "not isinstance(smiles, str) or not smiles.strip()"
InvalidSmiles(v) == ~IsStr(v) \/ Strip(v.val) = << >>

\* urllib.parse.quote on one character: letters, digits and "_.-~/" stay
QuoteChar(c) ==
    CASE c = "="  -> "%3D"
      [] c = "#"  -> "%23"
      [] c = " "  -> "%20"
      [] c = "\t" -> "%09"
      [] c = NL   -> "%0A"
      [] OTHER    -> c

\* urllib.parse.quote(smiles)
Quote(chars) == [ k \in 1..Len(chars) |-> QuoteChar(chars[k]) ]

\* variant: the method is compared as given, without lower()
Lower_Identity(m) == m

\* str.lower() on the method names used
Lower(m) ==
    CASE m = "GET" -> "get"
      [] m = "Get" -> "get"
      [] m = "POST" -> "post"
      [] OTHER -> m

\* text.split(): the items of a text that are not whitespace
Split(text) == SelectSeq(text, LAMBDA t : t \notin Whitespace)

\* int(x) on one token: the tokens that are integer literals, and their values
IntLiterals == { "12", "34" }
IntOf(tok) == IF tok = "12" THEN 12 ELSE 34

\* variant: tokens that are no integers are skipped
ParseCids_SkipBad(text) ==
    LET good == SelectSeq(Split(text), LAMBDA t : t \in IntLiterals)
    IN  [ k \in 1..Len(good) |-> IntOf(good[k]) ]

\* "try: return [int(x) for x in text.split()]  except ValueError: return []"
ParseCids(text) ==
    LET toks == Split(text)
    IN  IF \E k \in 1..Len(toks) : toks[k] \notin IntLiterals
        THEN << >>
        ELSE [ k \in 1..Len(toks) |-> IntOf(toks[k]) ]

\* ------------------------------------------------------------------
\* The remote side: what one HTTP request can produce
\* ------------------------------------------------------------------
Exceptions == { "ConnectionError", "Timeout", "HTTPError" }

Shapes == { "rows_nl", "header_only", "empty" }

\* one data line per CID of the chunk
RowLines(chunk) == [ k \in 1..Len(chunk) |-> << CidStr(chunk[k]) >> ]

\* the response text of the property endpoint for a chunk
CsvBody(shape, chunk) ==
    CASE shape = "rows_nl"     -> JoinLines(<< HeaderLine >> \o RowLines(chunk)) \o << NL >>
      [] shape = "header_only" -> HeaderLine \o << NL >>
      [] OTHER                 -> << >>

JsonText == << "{}" >>
DirectBodies == { JsonText, << "12" >>, << >> }

\* the texts the search endpoints can answer with
SearchBodies ==
    { << "12", NL, "34", NL >>, << "12", NL, "x", NL >>, << "Status:", " ", "x" >>,
      << >> }

\* r.json(): defined on JSON text only
IsJson(body) == body = JsonText
ParseJson(body) == << "dict" >>

\* ------------------------------------------------------------------
\* State
\* ------------------------------------------------------------------
VARIABLES
    caller,          \* the function the user called
    cid_list,        \* arguments of pubchem_properties_for_cids
    properties,
    chunk_size,
    sleep_time,
    pc,              \* "start", "loop", "wait", "done", "raised"
    i,               \* loop index of the chunk loop
    num_chunks,
    csv_output,
    failed_chunks,
    ret,             \* the value returned to the user (None until then)
    calls,           \* URLs handed to pubchem_get by the chunk loop, in order
    responses,       \* what pubchem_get returned for each of them
    merged,          \* chunk indices merged into csv_output, in order
    naps,            \* chunk indices followed by time.sleep(sleep_time)
    http_total,      \* HTTP requests made since the user's call
    t_pc,            \* "idle", "running", "returned", "propagated"
    t_method,        \* "GET" or "POST"
    t_retries,       \* arguments of the running pubchem_get / pubchem_post
    t_base_delay,
    t_return_json,
    t_url,
    t_attempt,       \* value of the loop variable attempt
    t_requests,      \* requests made by the running call
    t_sleeps,        \* durations of its time.sleep calls, in order
    t_error,         \* the error its latest failed attempt raised (None: none yet)
    t_result,        \* its return value (None, or Some(payload))
    t_payload,       \* the payload argument of pubchem_post (None for a GET)
    args,            \* arguments of the other functions, by parameter name
    locals,          \* their local variables, by name
    fs,              \* the files written: path |-> content
    exc,             \* the exception that left the user's call (None: none)
    stub,            \* None: the server answers freely; Some(f): it answers
                     \* a URL already seen as f says (a deterministic server)
    first_ret,       \* what the first of two identical calls returned
    pair             \* a pubchem_get call and a pubchem_post call run side
                     \* by side on the same attempt outcomes (<< >>: none)

batch_vars == << cid_list, properties, chunk_size, sleep_time, i, num_chunks,
                 csv_output, failed_chunks, calls, responses, merged, naps >>
transport_args == << t_method, t_retries, t_base_delay, t_return_json, t_url,
                     t_payload >>
transport_vars == << t_pc, t_method, t_retries, t_base_delay, t_return_json,
                     t_url, t_payload, t_attempt, t_requests, t_sleeps,
                     t_error, t_result >>
transport_locals == << t_attempt, t_requests, t_sleeps, t_error, t_result >>
other_vars == << args, locals, fs, pair >>
vars == << caller, pc, ret, http_total, batch_vars, transport_vars,
           other_vars, exc, stub, first_ret >>

Callers ==
    { "pubchem_properties_for_cids", "pubchem_get", "pubchem_post",
      "pubchem_fastsimilarity", "pubchem_fastidentity", "chunk_list",
      "save_csv", "save_json", "save_text", "load_cid_dict" }

SaveCallers == { "save_csv", "save_json", "save_text" }

\* sample arguments of the save functions
SaveArgs(fn) ==
    [ content : { << "a", NL >>, << >> },
      prefix : { "data", "output" },
      ext : IF fn = "save_csv" THEN { "csv" }
            ELSE IF fn = "save_json" THEN { "json" }
            ELSE { "txt", "log" },
      folder : { "downloads" } ]

\* sample JSON documents for load_cid_dict: objects of at most MaxEntries
\* entries with distinct keys, and one document that is no object
JsonKeys == { JsonValue("str", "1"), JsonValue("str", "2"), JsonValue("str", "x") }
JsonCounts ==
    { JsonValue("int", 5), JsonValue("str", "7"), JsonValue("str", "abc"),
      JsonValue("float", [ whole |-> 2, frac |-> 5 ]),
      JsonValue("NoneType", 0), JsonValue("list", 0) }
JsonObjects ==
    { items \in UNION { [ 1..n -> JsonKeys \X JsonCounts ] : n \in 0..MaxEntries } :
        \A a, b \in 1..Len(items) : a # b => items[a][1] # items[b][1] }
JsonDocs ==
    { [ type |-> "dict", items |-> items ] : items \in JsonObjects }
        \cup { [ type |-> "list", items |-> << >> ] }

SearchCallers == { "pubchem_fastsimilarity", "pubchem_fastidentity" }

\* sample arguments of the search functions
SmilesArgs ==
    { Str(<< "C", "=", "O" >>), Str(<< " ", "C" >>), Str(<< >>),
      Str(<< " ", NL >>), NotStr("int"), NotStr("NoneType") }
Methods == { "post", "get", "GET", "Get", "put" }
SimilarityArgs == [ smiles : SmilesArgs, threshold : { 90 } ]
IdentityArgs ==
    [ smiles : SmilesArgs, identity_type : { "same_connectivity" },
      method : Methods ]

\* sample CIDs (a list may repeat one) and sample delays
Cids == { 1, 2 }
SleepTimes == { 0, 1 }

CidLists == UNION { [ 1..n -> Cids ] : n \in 0..MaxLen }

\* sample arguments of chunk_list
ChunkListArgs == [ lst : CidLists, size : MinChunkSize..MaxChunkSize ]

PropertyArgs == { None, Some(<< "XLogP", "SMILES" >>) }

NoUrl == [ path |-> "", cids |-> << >>, props |-> << >>, query |-> << >> ]

InitCall ==
    /\ caller \in Callers
    /\ IF caller = "pubchem_properties_for_cids"
       THEN /\ cid_list \in CidLists
            /\ properties \in PropertyArgs
            /\ chunk_size \in MinChunkSize..MaxChunkSize
            /\ sleep_time \in SleepTimes
       ELSE /\ cid_list = << >>
            /\ properties = None
            /\ chunk_size = 1
            /\ sleep_time = 0
    /\ pc = "start"
    /\ i = 0
    /\ num_chunks = 0
    /\ csv_output = << >>
    /\ failed_chunks = << >>
    /\ ret = None
    /\ calls = << >>
    /\ responses = << >>
    /\ merged = << >>
    /\ naps = << >>
    /\ http_total = 0
    /\ t_pc = "idle"
    /\ t_method = "GET"
    /\ t_retries = DEFAULT_RETRIES
    /\ t_base_delay = DEFAULT_BASE_DELAY
    /\ t_return_json = TRUE
    /\ t_url = NoUrl
    /\ t_attempt = 1
    /\ t_requests = 0
    /\ t_sleeps = << >>
    /\ t_error = None
    /\ t_result = None
    /\ t_payload = None
    /\ args \in ( CASE caller = "pubchem_fastsimilarity" -> SimilarityArgs
                    [] caller = "pubchem_fastidentity" -> IdentityArgs
                    [] caller = "chunk_list" -> ChunkListArgs
                    [] caller \in SaveCallers -> SaveArgs(caller)
                    [] caller = "load_cid_dict" -> [ path : { "cids.json" } ]
                    [] OTHER -> { << >> } )
    /\ locals = << >>
    /\ fs \in ( IF caller = "load_cid_dict"
                  THEN { [ p \in { "cids.json" } |-> doc ] : doc \in JsonDocs }
                  ELSE { << >> } )
    /\ exc = None
    /\ first_ret = None

\* one call against the live server, which answers each request freely
Init == InitCall /\ stub = None /\ pair = << >>

\* the batch retriever against a stub transport: what a URL gets is fixed the
\* first time it is requested and is the same at every later request
InitTwice ==
    /\ InitCall
    /\ caller = "pubchem_properties_for_cids"
    /\ stub = Some(<< >>)
    /\ pair = << >>

\* ------------------------------------------------------------------
\* pubchem_get / pubchem_post
\* ------------------------------------------------------------------

\* entry of pubchem_get / pubchem_post: the retry loop starts at attempt 1
StartTransport(method, url, payload, retries, base_delay, return_json) ==
    /\ t_pc' = "running"
    /\ t_method' = method
    /\ t_url' = url
    /\ t_payload' = payload
    /\ t_retries' = retries
    /\ t_base_delay' = base_delay
    /\ t_return_json' = return_json
    /\ t_attempt' = 1
    /\ t_requests' = 0
    /\ t_sleeps' = << >>
    /\ t_error' = None
    /\ t_result' = None

\* the call frame of a finished pubchem_get is gone once its caller goes on
DropFrame ==
    /\ t_pc' = "idle"
    /\ t_attempt' = 1
    /\ t_requests' = 0
    /\ t_sleeps' = << >>
    /\ t_error' = None
    /\ t_result' = None

\* the bodies a 2xx response to the running request can carry
Bodies ==
    IF caller = "pubchem_properties_for_cids"
    THEN { CsvBody(sh, t_url.cids) : sh \in Shapes }
    ELSE IF caller \in SearchCallers THEN SearchBodies
    ELSE DirectBodies

\* the errors one attempt can raise inside the try block
Raisable ==
    Exceptions \cup
        (IF t_return_json /\ (\E b \in Bodies : ~IsJson(b))
         THEN { "JSONDecodeError" } ELSE { })

\* what one attempt met: an error, or a 2xx response with a body
Outcome(kind, body) == [ kind |-> kind, body |-> body ]

\* a deterministic server answers a URL it has answered before the same way
StubAllows(o) ==
    IF stub = None THEN TRUE
    ELSE IF t_url \notin DOMAIN stub[1] THEN TRUE
    ELSE stub[1][t_url] = o

StubAfter(o) ==
    IF stub = None THEN None
    ELSE IF t_url \in DOMAIN stub[1] THEN stub
    ELSE Some((t_url :> o) @@ stub[1])

\* one attempt whose request, raise_for_status and decoding all succeed:
\* the body is returned at once
AttemptReturns ==
    /\ t_pc = "running"
    /\ InRange(t_attempt, t_retries)
    /\ \E body \in Bodies :
          /\ t_return_json => IsJson(body)
          /\ StubAllows(Outcome("ok", body))
          /\ stub' = StubAfter(Outcome("ok", body))
          /\ t_result' = Some(IF t_return_json THEN ParseJson(body) ELSE body)
    /\ t_requests' = t_requests + 1
    /\ http_total' = http_total + 1
    /\ t_pc' = "returned"
    /\ UNCHANGED << caller, other_vars, exc, first_ret, pc, ret, batch_vars,
                    transport_args,
                    t_attempt, t_sleeps, t_error >>

\* one attempt that raises: the handler warns, sleeps and the loop goes on
AttemptRaises ==
    /\ t_pc = "running"
    /\ InRange(t_attempt, t_retries)
    /\ \E e \in Raisable :
          /\ StubAllows(Outcome(e, << >>))
          /\ stub' = StubAfter(Outcome(e, << >>))
          /\ t_error' = Some(e)
          /\ IF Caught(e)
             THEN /\ t_sleeps' = Append(t_sleeps, BackoffDelay(t_base_delay, t_attempt))
                  /\ t_attempt' = t_attempt + 1
                  /\ t_pc' = t_pc
             ELSE /\ t_pc' = "propagated"
                  /\ UNCHANGED << t_sleeps, t_attempt >>
    /\ t_requests' = t_requests + 1
    /\ http_total' = http_total + 1
    /\ UNCHANGED << caller, other_vars, exc, first_ret, pc, ret, batch_vars,
                    transport_args, t_result >>

\* the retry loop is over without a return: report and return None
Exhausted ==
    /\ t_pc = "running"
    /\ ~InRange(t_attempt, t_retries)
    /\ t_result' = None
    /\ t_pc' = "returned"
    /\ UNCHANGED << caller, other_vars, exc, stub, first_ret, pc, ret, http_total, batch_vars, transport_args,
                    t_attempt, t_requests, t_sleeps, t_error >>

\* the user calls pubchem_get or pubchem_post directly
DirectCall ==
    /\ pc = "start"
    /\ caller \in { "pubchem_get", "pubchem_post" }
    /\ \E retries \in MinRetries..MaxRetries, base_delay \in 0..MaxBaseDelay,
          return_json \in BOOLEAN :
          StartTransport(IF caller = "pubchem_get" THEN "GET" ELSE "POST",
                         [ NoUrl EXCEPT !.path = "direct" ], None,
                         retries, base_delay, return_json)
    /\ pc' = "wait"
    /\ UNCHANGED << caller, other_vars, exc, stub, first_ret, ret, http_total, batch_vars >>

DirectReturn ==
    /\ pc = "wait"
    /\ caller \in { "pubchem_get", "pubchem_post" }
    /\ t_pc = "returned"
    /\ ret' = Some(t_result)
    /\ pc' = "done"
    /\ UNCHANGED << caller, other_vars, exc, stub, first_ret, http_total, batch_vars, transport_vars >>

\* ------------------------------------------------------------------
\* pubchem_properties_for_cids
\* ------------------------------------------------------------------

\* "if not cid_list: return '', []"
ReturnEmpty ==
    /\ pc = "start"
    /\ caller = "pubchem_properties_for_cids"
    /\ Falsy(cid_list)
    /\ ret' = Some(<< << >>, << >> >>)
    /\ pc' = "done"
    /\ UNCHANGED << caller, other_vars, exc, stub, first_ret, http_total, batch_vars, transport_vars >>

\* ceil(len(cid_list) / chunk_size) with chunk_size = 0: ZeroDivisionError
DivideByZero ==
    /\ pc = "start"
    /\ caller = "pubchem_properties_for_cids"
    /\ ~Falsy(cid_list)
    /\ chunk_size = 0
    /\ pc' = "raised"
    /\ exc' = Some("ZeroDivisionError")
    /\ UNCHANGED << caller, other_vars, stub, first_ret, ret, http_total, batch_vars, transport_vars >>

\* variant: the accumulators outlive the call (module-level state)
EnterLoop_KeepAccumulators ==
    /\ pc = "start"
    /\ caller = "pubchem_properties_for_cids"
    /\ ~Falsy(cid_list)
    /\ chunk_size # 0
    /\ num_chunks' = NumChunks(Len(cid_list), chunk_size)
    /\ i' = 0
    /\ pc' = "loop"
    /\ UNCHANGED << caller, other_vars, exc, stub, first_ret, ret, http_total, cid_list, properties, chunk_size,
                    sleep_time, calls, responses, merged, naps, transport_vars,
                    failed_chunks, csv_output >>

\* default properties, num_chunks, empty accumulators
EnterLoop ==
    /\ pc = "start"
    /\ caller = "pubchem_properties_for_cids"
    /\ ~Falsy(cid_list)
    /\ chunk_size # 0
    /\ num_chunks' = NumChunks(Len(cid_list), chunk_size)
    /\ failed_chunks' = << >>
    /\ csv_output' = << >>
    /\ i' = 0
    /\ pc' = "loop"
    /\ UNCHANGED << caller, other_vars, exc, stub, first_ret, ret, http_total, cid_list, properties, chunk_size,
                    sleep_time, calls, responses, merged, naps, transport_vars >>

\* the property list joined into the URL
PropStr == IF properties = None THEN DEFAULT_PROPERTIES ELSE properties[1]

\* variant: the chunk is taken off the front of the caller's list
\* ("chunk = cid_list[:chunk_size]; del cid_list[:chunk_size]")
IssueChunk_Consumes ==
    /\ pc = "loop"
    /\ i < num_chunks
    /\ LET url == [ path  |-> "compound/cid/property/csv",
                    cids  |-> Slice(cid_list, 0, chunk_size),
                    props |-> PropStr,
                    query |-> << >> ]
       IN  /\ StartTransport("GET", url, None, DEFAULT_RETRIES, DEFAULT_BASE_DELAY, FALSE)
           /\ calls' = Append(calls, [ index |-> i, url |-> url ])
    /\ cid_list' = Slice(cid_list, chunk_size, Len(cid_list))
    /\ pc' = "wait"
    /\ UNCHANGED << caller, other_vars, exc, stub, first_ret, ret, http_total,
                    properties, chunk_size, sleep_time, i, num_chunks,
                    csv_output, failed_chunks, responses, merged, naps >>

\* top of a loop iteration: slice the chunk, build the URL, call pubchem_get
IssueChunk ==
    /\ pc = "loop"
    /\ i < num_chunks
    /\ LET url == [ path  |-> "compound/cid/property/csv",
                    cids  |-> ChunkAt(cid_list, i, chunk_size),
                    props |-> PropStr,
                    query |-> << >> ]
       IN  /\ StartTransport("GET", url, None, DEFAULT_RETRIES, DEFAULT_BASE_DELAY, FALSE)
           /\ calls' = Append(calls, [ index |-> i, url |-> url ])
    /\ pc' = "wait"
    /\ UNCHANGED << caller, other_vars, exc, stub, first_ret, ret, http_total, cid_list, properties, chunk_size,
                    sleep_time, i, num_chunks, csv_output, failed_chunks,
                    responses, merged, naps >>

\* variant: "if not text", which also takes an empty body for a failure
ChunkFailed_IfNotText ==
    /\ pc = "wait"
    /\ caller = "pubchem_properties_for_cids"
    /\ t_pc = "returned"
    /\ IF t_result = None THEN TRUE ELSE t_result[1] = << >>
    /\ failed_chunks' = Append(failed_chunks, i)
    /\ responses' = Append(responses, t_result)
    /\ i' = i + 1
    /\ pc' = "loop"
    /\ DropFrame
    /\ UNCHANGED << caller, other_vars, exc, stub, first_ret, ret, http_total,
                    cid_list, properties, chunk_size, sleep_time, num_chunks,
                    csv_output, calls, merged, naps, transport_args >>

\* variant: a failed chunk is recorded and then issued again
ChunkFailed_Retry ==
    /\ pc = "wait"
    /\ caller = "pubchem_properties_for_cids"
    /\ t_pc = "returned"
    /\ t_result = None
    /\ failed_chunks' = Append(failed_chunks, i)
    /\ responses' = Append(responses, t_result)
    /\ i' = i
    /\ pc' = "loop"
    /\ DropFrame
    /\ UNCHANGED << caller, other_vars, exc, stub, first_ret, ret, http_total, cid_list, properties, chunk_size,
                    sleep_time, num_chunks, csv_output, calls, merged, naps,
                    transport_args >>

\* variant: a failed chunk ends the loop ("break" for "continue")
ChunkFailed_Break ==
    /\ pc = "wait"
    /\ caller = "pubchem_properties_for_cids"
    /\ t_pc = "returned"
    /\ t_result = None
    /\ failed_chunks' = Append(failed_chunks, i)
    /\ responses' = Append(responses, t_result)
    /\ i' = num_chunks
    /\ pc' = "loop"
    /\ DropFrame
    /\ UNCHANGED << caller, other_vars, exc, stub, first_ret, ret, http_total,
                    cid_list, properties, chunk_size, sleep_time, num_chunks,
                    csv_output, calls, merged, naps, transport_args >>

\* "if text is None: failed_chunks.append(i); continue"
ChunkFailed ==
    /\ pc = "wait"
    /\ caller = "pubchem_properties_for_cids"
    /\ t_pc = "returned"
    /\ t_result = None
    /\ failed_chunks' = Append(failed_chunks, i)
    /\ responses' = Append(responses, t_result)
    /\ i' = i + 1
    /\ pc' = "loop"
    /\ DropFrame
    /\ UNCHANGED << caller, other_vars, exc, stub, first_ret, ret, http_total, cid_list, properties, chunk_size,
                    sleep_time, num_chunks, csv_output, calls, merged, naps,
                    transport_args >>

\* a text came back: split, merge (header kept for chunk 0 only), sleep
ChunkMerged ==
    /\ pc = "wait"
    /\ caller = "pubchem_properties_for_cids"
    /\ t_pc = "returned"
    /\ t_result # None
    /\ csv_output' = MergeChunk(csv_output, i, SplitLines(t_result[1]))
    /\ merged' = Append(merged, i)
    /\ naps' = Append(naps, i)
    /\ responses' = Append(responses, t_result)
    /\ i' = i + 1
    /\ pc' = "loop"
    /\ DropFrame
    /\ UNCHANGED << caller, other_vars, exc, stub, first_ret, ret, http_total, cid_list, properties, chunk_size,
                    sleep_time, num_chunks, failed_chunks, calls,
                    transport_args >>

\* the loop is over: "return csv_output, failed_chunks"
Return ==
    /\ pc = "loop"
    /\ i >= num_chunks
    /\ ret' = Some(<< csv_output, failed_chunks >>)
    /\ pc' = "done"
    /\ UNCHANGED << caller, other_vars, exc, stub, first_ret, http_total, batch_vars, transport_vars >>

\* ------------------------------------------------------------------
\* pubchem_fastsimilarity / pubchem_fastidentity
\* ------------------------------------------------------------------

\* "[Error] Invalid SMILES input." and return []
SearchInvalid ==
    /\ pc = "start"
    /\ caller \in SearchCallers
    /\ InvalidSmiles(args.smiles)
    /\ ret' = Some(<< >>)
    /\ pc' = "done"
    /\ UNCHANGED << caller, other_vars, exc, stub, first_ret, http_total,
                    batch_vars, transport_vars >>

\* the one transport call of a search: method, URL and payload
SearchCall(method, url, payload) ==
    /\ StartTransport(method, url, payload, DEFAULT_RETRIES, DEFAULT_BASE_DELAY,
                      FALSE)
    /\ calls' = Append(calls, [ method |-> method, url |-> url,
                                payload |-> payload ])
    /\ pc' = "wait"
    /\ UNCHANGED << caller, other_vars, exc, stub, first_ret, ret, http_total,
                    cid_list, properties, chunk_size, sleep_time, i, num_chunks,
                    csv_output, failed_chunks, responses, merged, naps >>

\* pubchem_fastsimilarity: GET with the quoted SMILES and the threshold
SimilarityCall ==
    /\ pc = "start"
    /\ caller = "pubchem_fastsimilarity"
    /\ ~InvalidSmiles(args.smiles)
    /\ SearchCall("GET",
                  [ NoUrl EXCEPT
                      !.path = "compound/fastsimilarity_2d/smiles/cids/txt",
                      !.query = << << "smiles", Quote(args.smiles.val) >>,
                                   << "Threshold", args.threshold >> >> ],
                  None)

\* pubchem_fastidentity, method.lower() == "get"
IdentityCallGet ==
    /\ pc = "start"
    /\ caller = "pubchem_fastidentity"
    /\ ~InvalidSmiles(args.smiles)
    /\ Lower(args.method) = "get"
    /\ SearchCall("GET",
                  [ NoUrl EXCEPT
                      !.path = "compound/fastidentity/smiles/cids/txt",
                      !.query = << << "smiles", Quote(args.smiles.val) >>,
                                   << "identity_type", args.identity_type >> >> ],
                  None)

\* pubchem_fastidentity, any other method: POST with the SMILES as payload
IdentityCallPost ==
    /\ pc = "start"
    /\ caller = "pubchem_fastidentity"
    /\ ~InvalidSmiles(args.smiles)
    /\ Lower(args.method) # "get"
    /\ SearchCall("POST",
                  [ NoUrl EXCEPT
                      !.path = "compound/fastidentity/smiles/cids/txt",
                      !.query = << << "identity_type", args.identity_type >> >> ],
                  Some([ smiles |-> args.smiles.val ]))

\* "if text is None: return []"
SearchNoResult ==
    /\ pc = "wait"
    /\ caller \in SearchCallers
    /\ t_pc = "returned"
    /\ t_result = None
    /\ ret' = Some(<< >>)
    /\ pc' = "done"
    /\ UNCHANGED << caller, other_vars, exc, stub, first_ret, http_total,
                    batch_vars, transport_vars >>

\* the text is parsed into the CID list
SearchParsed ==
    /\ pc = "wait"
    /\ caller \in SearchCallers
    /\ t_pc = "returned"
    /\ t_result # None
    /\ ret' = Some(ParseCids(t_result[1]))
    /\ pc' = "done"
    /\ UNCHANGED << caller, other_vars, exc, stub, first_ret, http_total,
                    batch_vars, transport_vars >>

\* ------------------------------------------------------------------
\* core.utils.chunk_list
\* ------------------------------------------------------------------

\* "if size <= 0: raise ValueError(...)"
ChunkListRaises ==
    /\ pc = "start"
    /\ caller = "chunk_list"
    /\ args.size <= 0
    /\ exc' = Some("ValueError")
    /\ pc' = "raised"
    /\ UNCHANGED << caller, other_vars, stub, first_ret, ret, http_total,
                    batch_vars, transport_vars >>

\* the list of successive slices is returned
ChunkListReturns ==
    /\ pc = "start"
    /\ caller = "chunk_list"
    /\ args.size > 0
    /\ ret' = Some(ChunkList(args.lst, args.size))
    /\ pc' = "done"
    /\ UNCHANGED << caller, other_vars, exc, stub, first_ret, http_total,
                    batch_vars, transport_vars >>

\* ------------------------------------------------------------------
\* core.io: save_csv, save_json, save_text, load_cid_dict
\* ------------------------------------------------------------------

\* save_csv / save_json / save_text: make_filename(prefix, ext=..., folder=folder),
\* then the content is written and the path returned
SaveFile ==
    /\ pc = "start"
    /\ caller \in SaveCallers
    /\ IF CallBinds(MakeFilenameParams, { "ext", "folder" })
       THEN \E date_str \in { "20260101" } :
               LET path == MakeFilename(args.prefix, args.ext, date_str)
               IN  /\ fs' = (path :> args.content) @@ fs
                   /\ ret' = Some(path)
                   /\ pc' = "done"
                   /\ UNCHANGED exc
       ELSE /\ exc' = Some("TypeError")
            /\ pc' = "raised"
            /\ UNCHANGED << fs, ret >>
    /\ UNCHANGED << caller, args, locals, pair, stub, first_ret, http_total,
                    batch_vars, transport_vars >>

\* json.load, then "if not isinstance(data, dict): raise ValueError"
LoadNotDict ==
    /\ pc = "start"
    /\ caller = "load_cid_dict"
    /\ fs[args.path].type # "dict"
    /\ exc' = Some("ValueError")
    /\ pc' = "raised"
    /\ UNCHANGED << caller, other_vars, stub, first_ret, ret, http_total,
                    batch_vars, transport_vars >>

\* the file holds an object: the entry loop starts with cleaned = {}
LoadOpen ==
    /\ pc = "start"
    /\ caller = "load_cid_dict"
    /\ fs[args.path].type = "dict"
    /\ locals' = [ data |-> fs[args.path].items, k |-> 1, cleaned |-> << >>,
                   skipped |-> 0 ]
    /\ pc' = "entries"
    /\ UNCHANGED << caller, args, fs, pair, exc, stub, first_ret, ret, http_total,
                    batch_vars, transport_vars >>

\* one iteration of "for cid, count in data.items()": both int() calls
\* succeed and the entry is stored; or one raises ValueError and the entry
\* is skipped with a warning; or one raises another error, which no
\* handler catches
LoadEntry ==
    /\ pc = "entries"
    /\ locals.k <= Len(locals.data)
    /\ LET cid == IntConv(locals.data[locals.k][1])
           count == IntConv(locals.data[locals.k][2])
           err == IF ~cid.ok THEN cid.err ELSE count.err
       IN  IF cid.ok /\ count.ok
           THEN /\ locals' = [ locals EXCEPT
                                 !.cleaned = (cid.val :> count.val) @@ @,
                                 !.k = @ + 1 ]
                /\ UNCHANGED << pc, exc >>
           ELSE IF err = "ValueError"
           THEN /\ locals' = [ locals EXCEPT !.skipped = @ + 1, !.k = @ + 1 ]
                /\ UNCHANGED << pc, exc >>
           ELSE /\ exc' = Some(err)
                /\ pc' = "raised"
                /\ UNCHANGED locals
    /\ UNCHANGED << caller, args, fs, pair, stub, first_ret, ret, http_total,
                    batch_vars, transport_vars >>

\* "return cleaned"
LoadReturns ==
    /\ pc = "entries"
    /\ locals.k > Len(locals.data)
    /\ ret' = Some(locals.cleaned)
    /\ pc' = "done"
    /\ UNCHANGED << caller, other_vars, exc, stub, first_ret, http_total,
                    batch_vars, transport_vars >>

Next ==
    \/ SaveFile
    \/ LoadNotDict
    \/ LoadOpen
    \/ LoadEntry
    \/ LoadReturns
    \/ ChunkListRaises
    \/ ChunkListReturns
    \/ SearchInvalid
    \/ SimilarityCall
    \/ IdentityCallGet
    \/ IdentityCallPost
    \/ SearchNoResult
    \/ SearchParsed
    \/ DirectCall
    \/ AttemptReturns
    \/ AttemptRaises
    \/ Exhausted
    \/ DirectReturn
    \/ ReturnEmpty
    \/ DivideByZero
    \/ EnterLoop
    \/ IssueChunk
    \/ ChunkFailed
    \/ ChunkMerged
    \/ Return

Spec == Init /\ [][Next]_vars

\* the caller calls pubchem_properties_for_cids a second time with the same
\* arguments: a new frame, whose locals are bound by the body's assignments
CallAgain ==
    /\ pc = "done"
    /\ caller = "pubchem_properties_for_cids"
    /\ first_ret = None
    /\ first_ret' = ret
    /\ ret' = None
    /\ pc' = "start"
    /\ calls' = << >>
    /\ responses' = << >>
    /\ merged' = << >>
    /\ naps' = << >>
    /\ UNCHANGED << caller, other_vars, exc, stub, http_total, cid_list, properties,
                    chunk_size, sleep_time, i, num_chunks, csv_output,
                    failed_chunks, transport_vars >>

NextTwice ==
    \/ ReturnEmpty
    \/ DivideByZero
    \/ EnterLoop
    \/ IssueChunk
    \/ AttemptReturns
    \/ AttemptRaises
    \/ Exhausted
    \/ ChunkFailed
    \/ ChunkMerged
    \/ Return
    \/ CallAgain

SpecTwice == InitTwice /\ [][NextTwice]_vars

\* calls of the batch retriever that get past both early exits: a non-empty
\* cid_list and chunk_size >= 1. No branch of the loop reads a CID value or
\* the property list, so one CID value and the default list stand for all.
InitLive ==
    /\ Init
    /\ caller = "pubchem_properties_for_cids"
    /\ cid_list # << >>
    /\ \A k \in 1..Len(cid_list) : cid_list[k] = 1
    /\ chunk_size >= 1
    /\ properties = None

NextLive ==
    \/ EnterLoop
    \/ IssueChunk
    \/ AttemptReturns
    \/ AttemptRaises
    \/ Exhausted
    \/ ChunkFailed
    \/ ChunkMerged
    \/ Return

\* the program is one sequential thread: a step that can be taken is taken
\* (every request ends within its timeout, every sleep is finite)
LiveSpec == InitLive /\ [][NextLive]_vars /\ WF_vars(NextLive)

\* ------------------------------------------------------------------
\* pubchem_get and pubchem_post side by side
\* ------------------------------------------------------------------

\* what one attempt can meet: a 2xx response with a body, or an error
AttemptOutcomes ==
    { Outcome("ok", b) : b \in DirectBodies } \cup
        { Outcome(e, << >>) : e \in Exceptions }

\* the arguments the two calls share; payload goes to pubchem_post alone
PairArgs ==
    [ url : { [ NoUrl EXCEPT !.path = "direct" ] },
      payload : { None, Some(<< "smiles" >>) },
      retries : MinRetries..MaxRetries,
      base_delay : 0..MaxBaseDelay,
      return_json : BOOLEAN ]

\* the frame of a call at its entry: attempt 1 is next, nothing sent yet
NewFrame ==
    [ pc |-> "running", attempt |-> 1, sent |-> << >>, sleeps |-> << >>,
      result |-> None ]

\* variant: the handler sleeps base_delay, whatever the attempt
pubchem_post_FlatDelay(a, f, o) ==
    IF f.pc # "running" THEN f
    ELSE IF ~InRange(f.attempt, a.retries)
    THEN [ f EXCEPT !.pc = "returned", !.result = None ]
    ELSE LET sent == Append(f.sent, [ method |-> "POST", url |-> a.url,
                                      json |-> a.payload ])
             e == IF o.kind # "ok" THEN o.kind
                  ELSE IF a.return_json /\ ~IsJson(o.body) THEN "JSONDecodeError"
                  ELSE ""
         IN  IF e = ""
             THEN [ f EXCEPT !.sent = sent, !.pc = "returned",
                             !.result = Some(IF a.return_json
                                             THEN ParseJson(o.body) ELSE o.body) ]
             ELSE IF Caught(e)
             THEN [ f EXCEPT !.sent = sent,
                             !.sleeps = Append(@, a.base_delay),
                             !.attempt = @ + 1 ]
             ELSE [ f EXCEPT !.sent = sent, !.pc = "propagated" ]

\* pubchem_post, one pass: the loop test, then either the fall-through
\* "return None" or one try block whose request meets outcome o
pubchem_post(a, f, o) ==
    IF f.pc # "running" THEN f
    ELSE IF ~InRange(f.attempt, a.retries)
    THEN [ f EXCEPT !.pc = "returned", !.result = None ]
    ELSE LET sent == Append(f.sent, [ method |-> "POST", url |-> a.url,
                                      json |-> a.payload ])
             e == IF o.kind # "ok" THEN o.kind
                  ELSE IF a.return_json /\ ~IsJson(o.body) THEN "JSONDecodeError"
                  ELSE ""
         IN  IF e = ""
             THEN [ f EXCEPT !.sent = sent, !.pc = "returned",
                             !.result = Some(IF a.return_json
                                             THEN ParseJson(o.body) ELSE o.body) ]
             ELSE IF Caught(e)
             THEN [ f EXCEPT !.sent = sent,
                             !.sleeps = Append(@, BackoffDelay(a.base_delay, f.attempt)),
                             !.attempt = @ + 1 ]
             ELSE [ f EXCEPT !.sent = sent, !.pc = "propagated" ]

\* pubchem_get, one pass: the loop test, then either the fall-through
\* "return None" or one try block whose request meets outcome o
pubchem_get(a, f, o) ==
    IF f.pc # "running" THEN f
    ELSE IF ~InRange(f.attempt, a.retries)
    THEN [ f EXCEPT !.pc = "returned", !.result = None ]
    ELSE LET sent == Append(f.sent, [ method |-> "GET", url |-> a.url ])
             e == IF o.kind # "ok" THEN o.kind
                  ELSE IF a.return_json /\ ~IsJson(o.body) THEN "JSONDecodeError"
                  ELSE ""
         IN  IF e = ""
             THEN [ f EXCEPT !.sent = sent, !.pc = "returned",
                             !.result = Some(IF a.return_json
                                             THEN ParseJson(o.body) ELSE o.body) ]
             ELSE IF Caught(e)
             THEN [ f EXCEPT !.sent = sent,
                             !.sleeps = Append(@, BackoffDelay(a.base_delay, f.attempt)),
                             !.attempt = @ + 1 ]
             ELSE [ f EXCEPT !.sent = sent, !.pc = "propagated" ]

\* the same call made once with pubchem_get and once with pubchem_post
InitPair ==
    /\ InitCall
    /\ caller = "pubchem_get"
    /\ stub = None
    /\ pair \in { [ args |-> a, outcomes |-> << >>, get |-> NewFrame,
                    post |-> NewFrame ] : a \in PairArgs }

\* a call is at the top of its loop with an attempt left
AtAttempt(f) == f.pc = "running" /\ InRange(f.attempt, pair.args.retries)

\* the next attempt of both calls meets the same outcome o
PairAttempt ==
    /\ pair # << >>
    /\ \E f \in { pair.get, pair.post } : AtAttempt(f)
    /\ \E o \in AttemptOutcomes :
          pair' = [ pair EXCEPT !.outcomes = Append(@, o),
                                !.get = pubchem_get(pair.args, @, o),
                                !.post = pubchem_post(pair.args, @, o) ]
    /\ UNCHANGED << caller, pc, ret, http_total, batch_vars, transport_vars,
                    args, locals, fs, exc, stub, first_ret >>

\* no attempt is left: the calls fall out of their loops (no outcome is read)
PairFallThrough ==
    /\ pair # << >>
    /\ \E f \in { pair.get, pair.post } : f.pc = "running"
    /\ \A f \in { pair.get, pair.post } : ~AtAttempt(f)
    /\ LET o == CHOOSE x \in AttemptOutcomes : TRUE
       IN  pair' = [ pair EXCEPT !.get = pubchem_get(pair.args, @, o),
                                 !.post = pubchem_post(pair.args, @, o) ]
    /\ UNCHANGED << caller, pc, ret, http_total, batch_vars, transport_vars,
                    args, locals, fs, exc, stub, first_ret >>

NextPair ==
    \/ PairAttempt
    \/ PairFallThrough

SpecPair == InitPair /\ [][NextPair]_vars

\* ------------------------------------------------------------------
\* Vocabulary of the properties
\* ------------------------------------------------------------------
IsBatch == caller = "pubchem_properties_for_cids"
IsDirect == caller \in { "pubchem_get", "pubchem_post" }

\* the call ran the chunk loop to its end and returned
BatchDone == IsBatch /\ pc = "done" /\ cid_list # << >> /\ chunk_size >= 1

\* the returned pair
ReturnedText == ret[1][1]
ReturnedFailed == ret[1][2]

RECURSIVE Flatten(_)
Flatten(seqs) == IF seqs = << >> THEN << >> ELSE seqs[1] \o Flatten(Tail(seqs))

Range(f) == { f[x] : x \in DOMAIN f }

StrictlyAscending(s) == \A a, b \in 1..Len(s) : a < b => s[a] < s[b]

\* chunk number k (1-based position in calls) came back as a header line
\* plus one data line per requested CID
WellFormed(k) ==
    /\ responses[k] # None
    /\ SplitLines(responses[k][1]) = << HeaderLine >> \o RowLines(calls[k].url.cids)

\* the data lines (all lines but the header) of the successful chunks among
\* the first k chunks, in chunk order
RECURSIVE DataLinesUpTo(_)
DataLinesUpTo(k) ==
    IF k = 0 THEN << >>
    ELSE DataLinesUpTo(k - 1) \o
            (IF responses[k] = None THEN << >>
             ELSE DropFirst(SplitLines(responses[k][1])))

\* the positions (1-based) of the chunks whose transport call returned None
FailedPositions == { k \in 1..Len(responses) : responses[k] = None }

\* ------------------------------------------------------------------
\* Claims
\* ------------------------------------------------------------------

\* C1: whatever subset of chunks fails (chunk 0 included), the returned text
\* is exactly one header line followed by the data lines of the successful
\* chunks in chunk order, and a failed chunk contributes no line (no blank
\* line either).  Stated for runs in which at least one chunk succeeded and
\* every successful response is well formed.
C1_OneHeaderThenData ==
    ( /\ BatchDone
      /\ FailedPositions # 1..Len(responses)
      /\ \A k \in 1..Len(responses) : responses[k] # None => WellFormed(k) )
    => SplitLines(ReturnedText) = << HeaderLine >> \o DataLinesUpTo(Len(responses))

\* C2: when exactly one chunk k fails and all others succeed, failed_chunks
\* is [k] and the returned text is the all-success text without the rows of
\* chunk k: the header, then the rows of the other chunks in order.
C2_SingleFailureOmitsItsRows ==
    ( /\ BatchDone
      /\ Cardinality(FailedPositions) = 1
      /\ Len(responses) >= 2
      /\ \A k \in 1..Len(responses) : responses[k] # None => WellFormed(k) )
    => /\ ReturnedFailed = << (CHOOSE k \in FailedPositions : TRUE) - 1 >>
       /\ SplitLines(ReturnedText) =
             << HeaderLine >> \o DataLinesUpTo(Len(responses))

\* C3: when every chunk succeeds with a header line plus one data line per
\* requested CID, the returned text is one header line and then exactly
\* len(cid_list) data lines in the order of cid_list, and failed_chunks is
\* empty.
C3_AllSuccessMerge ==
    ( /\ BatchDone
      /\ \A k \in 1..Len(responses) : WellFormed(k) )
    => /\ SplitLines(ReturnedText) = << HeaderLine >> \o RowLines(cid_list)
       /\ Len(SplitLines(ReturnedText)) = 1 + Len(cid_list)
       /\ ReturnedFailed = << >>

C3_Witness ==
    /\ BatchDone
    /\ \A k \in 1..Len(responses) : WellFormed(k)
    /\ Len(cid_list) = 3
    /\ chunk_size = 2
    /\ cid_list[1] # cid_list[2]

\* C4: for a non-empty cid_list and chunk_size >= 1 there are
\* ceil(len(cid_list)/chunk_size) chunks, chunk i is
\* cid_list[i*chunk_size : (i+1)*chunk_size], each chunk holds between 1 and
\* chunk_size CIDs (all but the last exactly chunk_size), and the chunks
\* requested, concatenated in index order, are cid_list itself.
C4_ChunksPartition ==
    ( /\ IsBatch
      /\ cid_list # << >>
      /\ chunk_size >= 1
      /\ pc \in { "loop", "wait", "done" } )
    => LET requested == [ k \in 1..Len(calls) |-> calls[k].url.cids ]
           flat == Flatten(requested)
       IN  /\ num_chunks * chunk_size >= Len(cid_list)
           /\ (num_chunks - 1) * chunk_size < Len(cid_list)
           /\ \A k \in 1..Len(calls) :
                 /\ Len(requested[k]) \in 1..chunk_size
                 /\ k < num_chunks => Len(requested[k]) = chunk_size
                 /\ \A j \in 1..Len(requested[k]) :
                       requested[k][j] = cid_list[(k - 1) * chunk_size + j]
           /\ Len(flat) <= Len(cid_list)
           /\ flat = SubSeq(cid_list, 1, Len(flat))
           /\ pc = "done" => ( flat = cid_list /\ Len(calls) = num_chunks )

C4_Witness ==
    /\ BatchDone
    /\ Len(cid_list) = 3
    /\ chunk_size = 2
    /\ Len(calls) = 2
    /\ calls[2].url.cids = << cid_list[3] >>
    /\ cid_list[1] = cid_list[3]
    /\ cid_list[1] # cid_list[2]

\* C5: pubchem_get is called once per chunk, in ascending chunk order
\* 0, 1, ...; no chunk is issued twice; every chunk that came back is either
\* merged once or in failed_chunks once, never both; failed_chunks is
\* strictly ascending.
C5_OncePerChunkAscending ==
    IsBatch =>
       /\ \A k \in 1..Len(calls) : calls[k].index = k - 1
       /\ Len(calls) <= (IF num_chunks > 0 THEN num_chunks ELSE 0)
       /\ Len(responses) = (IF pc = "wait" THEN Len(calls) - 1 ELSE Len(calls))
       /\ StrictlyAscending(failed_chunks)
       /\ StrictlyAscending(merged)
       /\ Range(failed_chunks) \cap Range(merged) = { }
       /\ Range(failed_chunks) \cup Range(merged) = 0..(Len(responses) - 1)
       /\ Len(failed_chunks) + Len(merged) = Len(responses)
       /\ \A k \in 1..Len(responses) :
             (responses[k] = None) <=> (k - 1 \in Range(failed_chunks))
       /\ BatchDone => ( Len(calls) = num_chunks /\ ReturnedFailed = failed_chunks )

C5_Witness ==
    /\ BatchDone
    /\ num_chunks = 3
    /\ failed_chunks = << 0, 2 >>
    /\ merged = << 1 >>

\* the payloads a successful attempt of the running call can return
Payloads ==
    IF t_return_json
    THEN { ParseJson(b) : b \in { x \in Bodies : IsJson(x) } }
    ELSE Bodies

\* C6: no error raised during an attempt of pubchem_get / pubchem_post
\* (network error, timeout, non-2xx status, decoding error with
\* return_json) reaches the caller; the call returns None exactly when all
\* its attempts failed, and the caller sees a success payload or None.
C6_NoExceptionEscapes ==
    /\ t_pc # "propagated"
    /\ pc = "raised" =>
          exc \notin { Some(e) : e \in Exceptions \cup { "JSONDecodeError" } }
    /\ t_pc = "returned" =>
          /\ (t_result = None) <=> (t_attempt > t_retries)
          /\ (t_result = None /\ t_retries >= 1) =>
                (t_error # None /\ t_requests = t_retries)
          /\ t_result # None => t_result[1] \in Payloads
    /\ (IsDirect /\ pc = "done") => ret = Some(t_result)

C6_Witness ==
    /\ caller = "pubchem_post"
    /\ pc = "done"
    /\ t_return_json
    /\ t_retries = 3
    /\ t_requests = 3
    /\ t_error = Some("JSONDecodeError")
    /\ ret = Some(None)

\* the backoff sleeps after the failed attempts 1..n
BackoffUpTo(n) == [ a \in 1..n |-> t_base_delay * a ]

RECURSIVE SumSeq(_)
SumSeq(s) == IF s = << >> THEN 0 ELSE s[1] + SumSeq(Tail(s))

\* C7: a failed attempt n is followed by a sleep of base_delay * n only when
\* n < retries; when the last attempt fails, None is returned without a
\* backoff sleep.
C7_NoSleepAfterLastAttempt ==
    ( t_pc = "returned" /\ t_result = None /\ t_retries >= 1 )
    => t_sleeps = BackoffUpTo(t_retries - 1)

C9_SleepAfterEveryChunk ==
    IsBatch => \A k \in 1..Len(responses) : (k - 1) \in Range(naps)

\* C10: with an empty cid_list, whatever properties, chunk_size and
\* sleep_time, the call returns ("", []) at once: no transport call, no
\* request, no sleep.
C10_EmptyListShortCircuit ==
    ( IsBatch /\ cid_list = << >> )
    => /\ pc \in { "start", "done" }
       /\ pc = "done" => ret = Some(<< << >>, << >> >>)
       /\ calls = << >>
       /\ naps = << >>
       /\ http_total = 0
       /\ t_pc = "idle"
       /\ t_sleeps = << >>

C10_Witness ==
    /\ IsBatch
    /\ cid_list = << >>
    /\ pc = "done"
    /\ chunk_size = 0
    /\ properties # None
    /\ ret = Some(<< << >>, << >> >>)

\* C11: with a non-empty cid_list and a chunk_size of 0 or below, the call
\* notices the bad chunk size before any transport call and returns an
\* empty result; it raises nothing.
C11_BadChunkSizeNeutral ==
    ( /\ IsBatch
      /\ cid_list # << >>
      /\ chunk_size <= 0
      /\ pc # "start" )
    => /\ exc = None
       /\ pc # "raised"
       /\ calls = << >>
       /\ http_total = 0
       /\ pc = "done" => ret = Some(<< << >>, << >> >>)

IsSearch == caller \in { "pubchem_fastsimilarity", "pubchem_fastidentity" }

\* the sample smiles arguments that are no string, empty or all whitespace
BadSmiles ==
    { Str(<< >>), Str(<< " ", NL >>), NotStr("int"), NotStr("NoneType") }

\* C12: pubchem_fastsimilarity and pubchem_fastidentity with a smiles that
\* is not a string, or is empty or whitespace only, return [] without
\* raising and without a GET or POST request.
C12_InvalidSmilesNoRequest ==
    ( IsSearch /\ args.smiles \in BadSmiles )
    => /\ pc \in { "start", "done" }
       /\ pc = "done" => ret = Some(<< >>)
       /\ exc = None
       /\ calls = << >>
       /\ http_total = 0
       /\ t_pc = "idle"

C12_Witness ==
    /\ caller = "pubchem_fastidentity"
    /\ args.smiles = Str(<< " ", NL >>)
    /\ args.method = "get"
    /\ pc = "done"
    /\ ret = Some(<< >>)
    /\ http_total = 0

\* the whitespace-separated tokens of the text the transport returned
ReturnedTokens == SelectSeq(t_result[1], LAMBDA t : t # " " /\ t # "\t" /\ t # NL)

\* C13: with a valid smiles, a search returns [] when the transport returned
\* None, [] (never a partial list) and no exception when some token of the
\* text is not an integer, and otherwise all tokens as integers in the
\* order of the response.
C13_ParseAllOrNothing ==
    ( IsSearch /\ args.smiles \notin BadSmiles /\ pc = "done" )
    => /\ exc = None
       /\ t_result = None => ret = Some(<< >>)
       /\ t_result # None =>
             IF \E k \in 1..Len(ReturnedTokens) :
                   ReturnedTokens[k] \notin { "12", "34" }
             THEN ret = Some(<< >>)
             ELSE /\ Len(ret[1]) = Len(ReturnedTokens)
                  /\ \A k \in 1..Len(ReturnedTokens) :
                        ret[1][k] = (IF ReturnedTokens[k] = "12" THEN 12 ELSE 34)

C13_Witness ==
    /\ caller = "pubchem_fastsimilarity"
    /\ pc = "done"
    /\ t_result = Some(<< "12", NL, "x", NL >>)
    /\ ret = Some(<< >>)

C13_WitnessParsed ==
    /\ caller = "pubchem_fastidentity"
    /\ pc = "done"
    /\ ret = Some(<< 12, 34 >>)

\* C20: pubchem_fastidentity with a valid smiles makes exactly one transport
\* call.  With method equal to "get" in any letter case it is pubchem_get
\* with the URL-encoded SMILES in the query string; with any other method
\* ("post", an unknown string) it is pubchem_post with payload
\* {"smiles": smiles} and a URL whose query carries identity_type only.
C20_IdentityMethodDispatch ==
    ( /\ caller = "pubchem_fastidentity"
      /\ args.smiles \notin BadSmiles
      /\ pc \in { "wait", "done" } )
    => /\ Len(calls) = 1
       /\ calls[1].url.path = "compound/fastidentity/smiles/cids/txt"
       /\ IF args.method \in { "get", "GET", "Get" }
          THEN /\ calls[1].method = "GET"
               /\ t_method = "GET"
               /\ calls[1].payload = None
               /\ calls[1].url.query =
                     << << "smiles",
                           IF args.smiles = Str(<< "C", "=", "O" >>)
                           THEN << "C", "%3D", "O" >> ELSE << "%20", "C" >> >>,
                        << "identity_type", args.identity_type >> >>
          ELSE /\ calls[1].method = "POST"
               /\ t_method = "POST"
               /\ calls[1].payload = Some([ smiles |-> args.smiles.val ])
               /\ calls[1].url.query =
                     << << "identity_type", args.identity_type >> >>

C20_Witness ==
    /\ caller = "pubchem_fastidentity"
    /\ args.smiles = Str(<< "C", "=", "O" >>)
    /\ args.method = "GET"
    /\ pc = "done"
    /\ calls[1].method = "GET"

C20_WitnessPost ==
    /\ caller = "pubchem_fastidentity"
    /\ args.smiles = Str(<< "C", "=", "O" >>)
    /\ args.method = "put"
    /\ pc = "done"
    /\ calls[1].method = "POST"

\* C16: chunk_list(lst, size) with size >= 1 returns successive chunks whose
\* concatenation is list(lst); every chunk but the last has exactly size
\* elements, the last between 1 and size, and an empty input gives no
\* chunk.  With size <= 0 it raises ValueError and returns nothing.
C16_ChunkList ==
    ( caller = "chunk_list" /\ pc # "start" )
    => IF args.size >= 1
       THEN /\ pc = "done"
            /\ exc = None
            /\ Flatten(ret[1]) = args.lst
            /\ \A k \in 1..Len(ret[1]) :
                  /\ Len(ret[1][k]) \in 1..args.size
                  /\ k < Len(ret[1]) => Len(ret[1][k]) = args.size
            /\ args.lst = << >> => ret[1] = << >>
       ELSE /\ pc = "raised"
            /\ exc = Some("ValueError")
            /\ ret = None

C16_Witness ==
    /\ caller = "chunk_list"
    /\ pc = "done"
    /\ args.lst = << 1, 2, 1 >>
    /\ args.size = 2
    /\ ret = Some(<< << 1, 2 >>, << 1 >> >>)

C16_WitnessRaises ==
    /\ caller = "chunk_list"
    /\ pc = "raised"
    /\ args.size = 0
    /\ args.lst = << >>

\* C17: save_csv, save_json and save_text write the content to the file
\* that make_filename names for the prefix and extension and return that
\* path; a call with valid arguments ends with a path, not with an error.
C17_SaveReturnsPath ==
    ( caller \in { "save_csv", "save_json", "save_text" } /\ pc # "start" )
    => /\ pc = "done"
       /\ exc = None
       /\ ret # None
       /\ ret[1] \in DOMAIN fs
       /\ ret[1][1] = args.prefix
       /\ ret[1][Len(ret[1])] = args.ext

\* the entries of the loaded object whose key and value are integers
\* (an int, or a string that is an integer literal)
IsIntegerJson(v) ==
    \/ v.type = "int"
    \/ (v.type = "str" /\ v.val \in { "1", "2", "7" })

\* C18: load_cid_dict on a JSON object returns the entries whose key and
\* value both convert to an integer and skips every other entry (a
\* non-numeric string, null, a nested list or object) with a warning; such
\* an entry never makes the load raise.
C18_LoadSkipsNonIntegers ==
    ( /\ caller = "load_cid_dict"
      /\ fs[args.path].type = "dict"
      /\ pc \notin { "start", "entries" } )
    => /\ pc = "done"
       /\ exc = None
       /\ \A k \in 1..Len(fs[args.path].items) :
             LET entry == fs[args.path].items[k]
             IN  /\ (IsIntegerJson(entry[1]) /\ IsIntegerJson(entry[2]))
                       => \E c \in DOMAIN ret[1] :
                             JsonValue("str", ToString(c)) = entry[1]
                 /\ (entry[1].val = "x"
                        \/ entry[2].type \in { "NoneType", "list" }
                        \/ entry[2] \in { v \in JsonCounts :
                                             v.type = "str" /\ v.val = "abc" })
                       => ~ \E c \in DOMAIN ret[1] :
                               JsonValue("str", ToString(c)) = entry[1]

\* the state part of C19: the attempt about to run is numbered one more
\* than the requests made, never more than retries requests are made, and a
\* returned payload is the body of the successful attempt, parsed when
\* return_json is true and raw otherwise
C19_Numbering ==
    ( t_pc \in { "running", "returned" } /\ t_retries >= 1 )
    => /\ t_requests <= t_retries
       /\ t_attempt \in 1..(t_retries + 1)
       /\ t_pc = "running" => t_attempt = t_requests + 1
       /\ (t_pc = "returned" /\ t_result # None) =>
             /\ t_attempt = t_requests
             /\ IF t_return_json
                THEN t_result = Some(<< "dict" >>)
                ELSE t_result[1] \in Bodies

\* the step part of C19: requests are made one at a time by the attempt
\* whose number is next, and once the call has returned no request and no
\* sleep of it follows
C19_Steps ==
    /\ t_requests' > t_requests =>
          ( t_pc = "running" /\ t_requests' = t_attempt /\ t_attempt <= t_retries )
    /\ t_pc = "returned" =>
          /\ http_total' = http_total
          /\ t_pc' = "returned" =>
                UNCHANGED << t_requests, t_sleeps, t_result, t_attempt >>
          /\ t_pc' # "running"

\* C19: in pubchem_get / pubchem_post with retries >= 1 the attempts are
\* numbered 1..retries and made in that order, at most retries requests are
\* made in one call, and after the first successful attempt no request and
\* no sleep follows; its body is returned, parsed when return_json is true.
C19_AttemptsInOrder == [] C19_Numbering /\ [][C19_Steps]_vars

C19_Witness ==
    /\ caller = "pubchem_post"
    /\ pc = "done"
    /\ t_retries = 3
    /\ t_requests = 2
    /\ t_attempt = 2
    /\ t_return_json
    /\ Len(t_sleeps) = 1
    /\ ret = Some(Some(<< "dict" >>))

\* the number of chunks of the call: the least n with n * chunk_size >= len
ExpectedChunks ==
    IF chunk_size >= 1
    THEN CHOOSE n \in 0..Len(cid_list) :
            n * chunk_size >= Len(cid_list) /\ (n - 1) * chunk_size < Len(cid_list)
    ELSE 0

\* a call of the batch retriever with a non-empty list and chunk_size >= 1
ProperBatch == IsBatch /\ cid_list # << >> /\ chunk_size >= 1

\* the state part of C15: never more than 3 requests per chunk in total, and
\* a finished call has gone through every chunk index, failed ones included
C15_Bounded ==
    ProperBatch =>
       /\ http_total <= ExpectedChunks * DEFAULT_RETRIES
       /\ pc = "done" =>
             /\ Len(responses) = ExpectedChunks
             /\ \A k \in 1..ExpectedChunks : calls[k].index = k - 1
             /\ Len(failed_chunks) + Len(merged) = ExpectedChunks

\* C15: for a non-empty cid_list, chunk_size >= 1 and any pattern of failed
\* attempts, the call eventually returns after going through every chunk
\* index 0..num_chunks-1; a chunk that exhausts its retries neither stops
\* nor skips a later chunk, and at most num_chunks * 3 requests are made.
C15_EventuallyDone ==
    /\ [] C15_Bounded
    /\ (ProperBatch /\ pc = "start")
          ~> (pc = "done" /\ Len(responses) = ExpectedChunks)

C15_Witness ==
    /\ BatchDone
    /\ Len(responses) = 3
    /\ failed_chunks = << 0 >>
    /\ merged = << 1, 2 >>
    /\ http_total = 5


\* the second of the two calls has returned
SecondDone == IsBatch /\ pc = "done" /\ first_ret # None

\* C14: two calls of pubchem_properties_for_cids with the same cid_list,
\* properties and chunk_size, against a transport whose outcome is a function
\* of the request URL, return the same csv_text and the same failed_chunks.
C14_SecondCallSame ==
    SecondDone =>
       /\ ret # None
       /\ ret[1][1] = first_ret[1][1]
       /\ ret[1][2] = first_ret[1][2]

C14_Witness ==
    /\ SecondDone
    /\ ret = first_ret
    /\ cid_list = << 1, 2 >>
    /\ chunk_size = 1
    /\ ret[1][2] = << 1 >>
    /\ ret[1][1] # << >>


\* C24: pubchem_get and pubchem_post called with retries <= 0 make no request
\* and no sleep and return None, the value a call returns after all of its
\* retries >= 1 attempts have failed.
C24_NoAttemptsNoRequest ==
    IsDirect =>
       /\ ( t_retries <= 0 /\ t_pc \in { "running", "returned" } ) =>
             /\ t_requests = 0
             /\ t_sleeps = << >>
             /\ http_total = 0
             /\ t_result = None
             /\ pc = "done" => ret = Some(None)
       /\ ( pc = "done" /\ t_retries >= 1 /\ Len(t_sleeps) = t_retries ) =>
             ret = Some(None)

C24_Witness ==
    /\ caller = "pubchem_post"
    /\ pc = "done"
    /\ t_retries = 0
    /\ t_requests = 0
    /\ t_sleeps = << >>
    /\ ret = Some(None)


\* every attempt of the pubchem_get call that has just returned raised: it
\* made all of its requests and slept after each of them
AllAttemptsRaised ==
    /\ t_pc = "returned"
    /\ t_requests = t_retries
    /\ Len(t_sleeps) = t_requests

\* the chunk indices recorded as failed are those whose call returned None
C22_Recorded ==
    IsBatch =>
       \A k \in 1..Len(responses) :
          ( calls[k].index \in Range(failed_chunks) ) <=> ( responses[k] = None )

\* the step that takes up the result of chunk i's pubchem_get call
C22_Step ==
    ( IsBatch /\ pc = "wait" /\ pc' = "loop" ) =>
       /\ ( failed_chunks' = Append(failed_chunks, i) ) <=> AllAttemptsRaised
       /\ ( failed_chunks' = failed_chunks ) <=> ~AllAttemptsRaised
       /\ ~AllAttemptsRaised => merged' = Append(merged, i)
       /\ ( t_result # None /\ Len(SplitLines(t_result[1])) <= 1 ) =>
             /\ failed_chunks' = failed_chunks
             /\ merged' = Append(merged, i)

\* C22: chunk index i is in failed_chunks iff every attempt of the transport
\* for chunk i raised; a response with an empty body or with a header line
\* only is a success and is not recorded as failed.
C22_FailedIffAllRaised == [] C22_Recorded /\ [][C22_Step]_vars

C22_Witness ==
    /\ BatchDone
    /\ Len(responses) = 3
    /\ responses[1] = Some(<< >>)
    /\ responses[2] = None
    /\ responses[3] # None
    /\ Len(SplitLines(responses[3][1])) = 1
    /\ failed_chunks = << 1 >>
    /\ merged = << 0, 2 >>


\* csv_output as the first k answers of the running call alone build it
RECURSIVE MergedUpTo(_)
MergedUpTo(k) ==
    IF k = 0 THEN << >>
    ELSE IF responses[k] = None THEN MergedUpTo(k - 1)
    ELSE MergeChunk(MergedUpTo(k - 1), calls[k].index, SplitLines(responses[k][1]))

\* inside the chunk loop, the accumulators hold what the answers of the
\* running call put there and nothing else, and every URL was built from the
\* caller's cid_list and properties (the six default fields for None)
C21_Fresh ==
    ( IsBatch /\ pc \in { "loop", "wait" } ) =>
       /\ csv_output = MergedUpTo(Len(responses))
       /\ Len(failed_chunks) = Cardinality(FailedPositions)
       /\ Range(failed_chunks) = { k - 1 : k \in FailedPositions }
       /\ \A k \in 1..Len(calls) :
             /\ calls[k].url.cids =
                   Slice(cid_list, (k - 1) * chunk_size, k * chunk_size)
             /\ calls[k].url.props =
                   ( IF properties = None THEN DEFAULT_PROPERTIES
                     ELSE properties[1] )

\* no step changes the caller's arguments, and the step into the chunk loop
\* starts from an empty buffer and an empty failed list
C21_Step ==
    /\ cid_list' = cid_list
    /\ properties' = properties
    /\ ( pc = "start" /\ pc' = "loop" ) =>
          ( csv_output' = << >> /\ failed_chunks' = << >> )

\* C21: pubchem_properties_for_cids leaves the caller's cid_list and
\* properties unchanged on every path, and its output buffer and failed list
\* are created anew at each call, so that nothing of one call is carried into
\* the next, also when properties is None and the default list is used.
C21_ArgumentsKeptStateFresh == [] C21_Fresh /\ [][C21_Step]_vars

C21_Witness ==
    /\ SecondDone
    /\ cid_list = << 2, 1 >>
    /\ properties = None
    /\ chunk_size = 1
    /\ first_ret[1][2] = << 0 >>
    /\ failed_chunks = << 0 >>
    /\ csv_output # << >>
    /\ calls[1].url.cids = << 2 >>
    /\ calls[2].url.props = DEFAULT_PROPERTIES


\* both calls of the pair are over
PairDone == pair # << >> /\ pair.get.pc # "running" /\ pair.post.pc # "running"

\* C23: for the same retries, base_delay and the same outcomes of the
\* attempts, pubchem_get and pubchem_post make the same number of requests,
\* sleep the same durations in the same order and return the same value;
\* their requests differ in the HTTP method and in the payload only.
C23_SameRetryMachine ==
    pair # << >> =>
       /\ pair.get.pc = pair.post.pc
       /\ pair.get.attempt = pair.post.attempt
       /\ Len(pair.get.sent) = Len(pair.post.sent)
       /\ Len(pair.get.sent) = Len(pair.outcomes)
       /\ pair.get.sleeps = pair.post.sleeps
       /\ pair.get.result = pair.post.result
       /\ \A k \in 1..Len(pair.get.sent) :
             pair.get.sent[k] = [ method |-> "GET", url |-> pair.args.url ]
       /\ \A k \in 1..Len(pair.post.sent) :
             pair.post.sent[k] = [ method |-> "POST", url |-> pair.args.url,
                                   json |-> pair.args.payload ]

C23_Witness ==
    /\ PairDone
    /\ pair.args.retries = 3
    /\ pair.args.base_delay = 2
    /\ Len(pair.outcomes) = 3
    /\ pair.outcomes[3].kind = "ok"
    /\ pair.get.sleeps = << 2, 4 >>
    /\ pair.post.sleeps = << 2, 4 >>
    /\ pair.post.result # None
    /\ pair.get.result = pair.post.result

====
